---- MODULE Spec2Model ----
(***************************************************************************)
(* License registry service (src/app.py): a table `licenses` with a        *)
(* UNIQUE license_key, and three request handlers over it:                 *)
(*   POST /check_license   (check_license_route)                           *)
(*   POST /add_license     (add_license_route)                             *)
(*   GET  /active_licenses (get_active_licenses_route)                     *)
(* Every handler opens its own connection.  add_license_route runs its     *)
(* INSERT and its COMMIT as two separate round trips, so requests served   *)
(* by different workers interleave between the two.                        *)
(***************************************************************************)
EXTENDS Integers, Sequences, FiniteSets, TLC

\* ------------------------------------------------------------------ bounds
\* requests being served at the same time
NumWorkers == 2
\* values the SERIAL sequence hands out
MaxSeq == 2

\* ------------------------------------------------------------ JSON / SQL values
\* A JSON member that is not in the payload, and JSON null / Python None / SQL NULL
\* for string-typed members.
Absent == "<absent>"
Null == "<null>"

\* Timestamps: SQL NULL / Python None is the empty tuple, a TIMESTAMP value is <<t>>.
NullTs == <<>>
Ts(t) == <<t>>

\* datetime.isoformat(): a timestamp rendered as a JSON string.
isoformat(ts) == <<"iso", ts[1]>>

\* JSON values a client may send as expires_at.
AbsentTs == <<"absent">>
Garbage == <<"garbage">>
IsIsoString(v) == Len(v) = 2 /\ v[1] = "iso"

\* The server's cast of the expires_at parameter to TIMESTAMP (None stays NULL).
to_timestamp(v) == IF v = NullTs THEN NullTs ELSE Ts(v[2])

LicenseKeys == {"", "ABC-123"}
Descriptions == {"trial", "x"}
\* The instants of the database clock, and the instants a payload may name as
\* expires_at: the clock starts before the expiry and runs past it.
Instants == {0, 1, 2}
ExpiryInstants == {1}

KeyInputs == LicenseKeys \cup {Absent, Null}
DescriptionInputs == Descriptions \cup {Absent}
\* is_active left out is is_active = true (data.get('is_active', True))
IsActiveInputs == {Absent, "false"}
ExpiresAtInputs == {AbsentTs, Garbage} \cup {isoformat(Ts(t)) : t \in ExpiryInstants}

\* Payloads with both required fields, and payloads that lack one (the handler
\* returns before it reads their optional members).
CompletePayloads ==
    [license_key : KeyInputs \ {Absent}, description : Descriptions,
     is_active : IsActiveInputs, expires_at : ExpiresAtInputs]

IncompletePayloads ==
    {data \in [license_key : KeyInputs, description : DescriptionInputs,
               is_active : {Absent}, expires_at : {AbsentTs}] :
        data.license_key = Absent \/ data.description = Absent}

AddPayloads == CompletePayloads \cup IncompletePayloads

\* ------------------------------------------------------------------- state
VARIABLES
    store,      \* committed rows of table licenses
    nextId,     \* next value of the SERIAL sequence behind licenses.id
    now,        \* the database clock (CURRENT_TIMESTAMP)
    txns,       \* the open add_license transactions, one per request in flight
    resp        \* the response a handler has just returned, until it is sent

vars == <<store, nextId, now, txns, resp>>

NoResponse == [route |-> "none", code |-> 0]

\* fetchone() on an empty result
NoRow == [id |-> 0]

\* ----------------------------------------------------------- table licenses
\* license_key TEXT UNIQUE NOT NULL
NotNullViolation(key) == key = Null

\* The table without its UNIQUE constraint.
UniqueViolation_unconstrained(S, key) == FALSE

UniqueViolation(S, key) == \E r \in S : r.license_key = key

\* A uniqueness check that looks at committed rows only (check-then-insert).
WaitsOnUncommitted_never(id, key) == FALSE

\* An INSERT whose key is held by another connection's uncommitted row waits
\* for that transaction to end before the UNIQUE index decides.
WaitsOnUncommitted(id, key) ==
    \E t \in txns : t.phase = "inserted" /\ t.row.id # id /\ t.row.license_key = key

\* conn.commit(): the inserted row becomes part of the table.
AfterCommit(S, row) == S \cup {row}

\* A connection in autocommit mode: the row stays although the request failed.
AfterAbort_autocommit(S, row) == S \cup {row}

\* conn.rollback(), or the connection dropped without commit: the row is discarded.
AfterAbort(S, row) == S

\* ------------------------------------------------------- add_license_route
required_fields == {"license_key", "description"}

RequiredFieldsPresent(data) == \A field \in required_fields : data[field] # Absent

\* data.get('is_active', True)
get_is_active(data) == IF data.is_active = Absent THEN "true" ELSE data.is_active

\* data.get('expires_at', None)
get_expires_at(data) == IF data.expires_at = AbsentTs THEN NullTs ELSE data.expires_at

\* psycopg2.DataError: the expires_at parameter is not a timestamp literal.
DataError(data) == get_expires_at(data) # NullTs /\ ~IsIsoString(get_expires_at(data))

\* The row the INSERT builds: id from the sequence, created_at from the
\* column default, the rest from the payload.
NewRow(data) ==
    [id |-> nextId,
     license_key |-> data.license_key,
     is_active |-> get_is_active(data),
     description |-> data.description,
     created_at |-> Ts(now),
     expires_at |-> to_timestamp(get_expires_at(data))]

AddResponse(code, body) == [route |-> "add_license", code |-> code, body |-> body]

Created(row) ==
    [message |-> "License added successfully", license_id |-> row.id,
     license_key |-> row.license_key]

Conflict == [error |-> "License key already exists or other integrity violation"]
MissingFields == [error |-> "Missing fields. Required: license_key, description"]
OperationFailed == [error |-> "Database operation failed"]

Init ==
    /\ store = {}
    /\ nextId = 1
    /\ now = 0
    /\ txns = {}
    /\ resp = NoResponse

\* A handler runs when the previous response has gone out.
Ready == resp = NoResponse

\* A request reaches the INSERT: a worker is free and the sequence has a value left.
CanExecute(data) ==
    /\ Ready
    /\ Cardinality(txns) < NumWorkers
    /\ nextId <= MaxSeq
    /\ RequiredFieldsPresent(data)
    /\ ~DataError(data)

\* 400: a required field is not in the payload.
AddLicenseMissingFields(data) ==
    /\ Ready
    /\ ~RequiredFieldsPresent(data)
    /\ resp' = AddResponse(400, MissingFields)
    /\ UNCHANGED <<store, nextId, now, txns>>

\* 500: the statement is rejected with a DataError; nothing was inserted.
AddLicenseDataError(data) ==
    /\ Ready
    /\ RequiredFieldsPresent(data)
    /\ DataError(data)
    /\ resp' = AddResponse(500, OperationFailed)
    /\ UNCHANGED <<store, nextId, now, txns>>

\* 500: the payload has the required fields, and get_db_connection() or
\* cur.execute() raises psycopg2.Error before the statement runs (the server
\* cannot be reached).
AddLicenseOperationalError ==
    /\ Ready
    /\ resp' = AddResponse(500, OperationFailed)
    /\ UNCHANGED <<store, nextId, now, txns>>

\* 409: the INSERT raises IntegrityError at once (NOT NULL, or UNIQUE against a
\* committed row); the handler rolls back.  The sequence value is consumed.
AddLicenseIntegrityError(data) ==
    /\ CanExecute(data)
    /\ \/ NotNullViolation(data.license_key)
       \/ /\ ~WaitsOnUncommitted(nextId, data.license_key)
          /\ UniqueViolation(store, data.license_key)
    /\ nextId' = nextId + 1
    /\ store' = AfterAbort(store, NewRow(data))
    /\ resp' = AddResponse(409, Conflict)
    /\ UNCHANGED <<now, txns>>

\* cur.execute(INSERT) returns: the row is in the request's open transaction.
AddLicenseInsert(data) ==
    /\ CanExecute(data)
    /\ ~NotNullViolation(data.license_key)
    /\ ~WaitsOnUncommitted(nextId, data.license_key)
    /\ ~UniqueViolation(store, data.license_key)
    /\ nextId' = nextId + 1
    /\ txns' = txns \cup {[phase |-> "inserted", row |-> NewRow(data)]}
    /\ UNCHANGED <<store, now, resp>>

\* cur.execute(INSERT) does not return yet: the key is held by an uncommitted row.
AddLicenseInsertWaits(data) ==
    /\ CanExecute(data)
    /\ ~NotNullViolation(data.license_key)
    /\ WaitsOnUncommitted(nextId, data.license_key)
    /\ nextId' = nextId + 1
    /\ txns' = txns \cup {[phase |-> "blocked", row |-> NewRow(data)]}
    /\ UNCHANGED <<store, now, resp>>

\* The transaction waited for has committed: the waiting INSERT raises IntegrityError.
AddLicenseWaitConflict(t) ==
    /\ Ready
    /\ t.phase = "blocked"
    /\ ~WaitsOnUncommitted(t.row.id, t.row.license_key)
    /\ UniqueViolation(store, t.row.license_key)
    /\ store' = AfterAbort(store, t.row)
    /\ txns' = txns \ {t}
    /\ resp' = AddResponse(409, Conflict)
    /\ UNCHANGED <<nextId, now>>

\* The transaction waited for has aborted: the waiting INSERT goes through.
AddLicenseWaitInsert(t) ==
    /\ Ready
    /\ t.phase = "blocked"
    /\ ~WaitsOnUncommitted(t.row.id, t.row.license_key)
    /\ ~UniqueViolation(store, t.row.license_key)
    /\ txns' = (txns \ {t}) \cup {[t EXCEPT !.phase = "inserted"]}
    /\ UNCHANGED <<store, nextId, now, resp>>

\* fetchone(), conn.commit(), close, 201.
AddLicenseCommit(t) ==
    /\ Ready
    /\ t.phase = "inserted"
    /\ store' = AfterCommit(store, t.row)
    /\ txns' = txns \ {t}
    /\ resp' = AddResponse(201, Created(t.row))
    /\ UNCHANGED <<nextId, now>>

\* 500: psycopg2.Error after the INSERT was sent and before the commit (the
\* connection is lost); the handler returns without commit and the connection
\* object is dropped, which ends the transaction.
AddLicenseAbort(t) ==
    /\ Ready
    /\ store' = AfterAbort(store, t.row)
    /\ txns' = txns \ {t}
    /\ resp' = AddResponse(500, OperationFailed)
    /\ UNCHANGED <<nextId, now>>

\* ------------------------------------------------------ check_license_route
\* The lookup without its WHERE clause.
fetchone_any(S, key) == IF S # {} THEN CHOOSE r \in S : TRUE ELSE NoRow

\* SELECT ... FROM licenses WHERE license_key = %s; fetchone()
fetchone_license(S, key) ==
    IF key # Null /\ \E r \in S : r.license_key = key
    THEN CHOOSE r \in S : r.license_key = key
    ELSE NoRow

\* Python truth value of the is_active column
Truthy(is_active) == is_active = "true"

\* A verdict that branches on `db_is_active is not None`.
response_data_not_none(key, license_data) ==
    IF license_data # NoRow
    THEN IF license_data.is_active # Null
         THEN [license_key |-> key, is_valid |-> TRUE, status |-> "active",
               description |-> license_data.description,
               expires_at |-> IF license_data.expires_at # NullTs
                              THEN isoformat(license_data.expires_at) ELSE NullTs]
         ELSE [license_key |-> key, is_valid |-> FALSE, status |-> "inactive_or_expired",
               description |-> license_data.description]
    ELSE [license_key |-> key, is_valid |-> FALSE, status |-> "not_found"]

\* A verdict that takes every license with an expires_at for expired.
response_data_any_expiry(key, license_data) ==
    IF license_data # NoRow
    THEN IF Truthy(license_data.is_active) /\ license_data.expires_at = NullTs
         THEN [license_key |-> key, is_valid |-> TRUE, status |-> "active",
               description |-> license_data.description,
               expires_at |-> NullTs]
         ELSE [license_key |-> key, is_valid |-> FALSE, status |-> "inactive_or_expired",
               description |-> license_data.description]
    ELSE [license_key |-> key, is_valid |-> FALSE, status |-> "not_found"]

\* A verdict that compares expires_at with the clock.
response_data_clock(key, license_data) ==
    IF license_data # NoRow
    THEN IF /\ Truthy(license_data.is_active)
            /\ (license_data.expires_at = NullTs \/ now < license_data.expires_at[1])
         THEN [license_key |-> key, is_valid |-> TRUE, status |-> "active",
               description |-> license_data.description,
               expires_at |-> IF license_data.expires_at # NullTs
                              THEN isoformat(license_data.expires_at) ELSE NullTs]
         ELSE [license_key |-> key, is_valid |-> FALSE, status |-> "inactive_or_expired",
               description |-> license_data.description]
    ELSE [license_key |-> key, is_valid |-> FALSE, status |-> "not_found"]

\* The verdict built from the fetched row.  is_expired is set to False and never
\* read: the branch is on db_is_active alone.
response_data(key, license_data) ==
    IF license_data # NoRow
    THEN IF Truthy(license_data.is_active)
         THEN [license_key |-> key, is_valid |-> TRUE, status |-> "active",
               description |-> license_data.description,
               expires_at |-> IF license_data.expires_at # NullTs
                              THEN isoformat(license_data.expires_at) ELSE NullTs]
         ELSE [license_key |-> key, is_valid |-> FALSE, status |-> "inactive_or_expired",
               description |-> license_data.description]
    ELSE [license_key |-> key, is_valid |-> FALSE, status |-> "not_found"]

CheckResponse(code, body) == [route |-> "check_license", code |-> code, body |-> body]

KeyNotProvided == [error |-> "License key not provided in JSON payload"]
QueryFailed == [error |-> "Database query failed"]

\* 400: 'license_key' is not in the payload.
CheckLicenseMissingKey ==
    /\ Ready
    /\ resp' = CheckResponse(400, KeyNotProvided)
    /\ UNCHANGED <<store, nextId, now, txns>>

\* 200: the lookup ran on its own connection and sees committed rows only.
CheckLicense(key) ==
    /\ Ready
    /\ key # Absent
    /\ resp' = CheckResponse(200, response_data(key, fetchone_license(store, key)))
    /\ UNCHANGED <<store, nextId, now, txns>>

\* 500: the connection or the query raises psycopg2.Error.
CheckLicenseError(key) ==
    /\ Ready
    /\ key # Absent
    /\ resp' = CheckResponse(500, QueryFailed)
    /\ UNCHANGED <<store, nextId, now, txns>>

\* ------------------------------------------------ get_active_licenses_route
\* WHERE is_active = TRUE
select_active(S) == {r \in S : r.is_active = "true"}

\* The orders in which a scan may hand the rows to the sort.
ScanOrders(S) ==
    {scan \in [1..Cardinality(S) -> S] :
        \A i, j \in 1..Cardinality(S) : i # j => scan[i] # scan[j]}

RECURSIVE InsertDesc(_, _)
InsertDesc(sorted, r) ==
    IF sorted = <<>> THEN <<r>>
    ELSE IF Head(sorted).created_at[1] >= r.created_at[1]
         THEN <<Head(sorted)>> \o InsertDesc(Tail(sorted), r)
         ELSE <<r>> \o sorted

\* The query without its ORDER BY: the rows as the scan hands them over.
OrderByNothing(rows) == rows

\* ORDER BY created_at DESC
RECURSIVE OrderByCreatedAtDesc(_)
OrderByCreatedAtDesc(rows) ==
    IF rows = <<>> THEN <<>>
    ELSE InsertDesc(OrderByCreatedAtDesc(SubSeq(rows, 1, Len(rows) - 1)), rows[Len(rows)])

\* One dictionary per fetched row.
active_licenses_list(licenses_data) ==
    [i \in 1..Len(licenses_data) |->
        [license_key |-> licenses_data[i].license_key,
         description |-> licenses_data[i].description,
         created_at |-> IF licenses_data[i].created_at # NullTs
                        THEN isoformat(licenses_data[i].created_at) ELSE NullTs,
         expires_at |-> IF licenses_data[i].expires_at # NullTs
                        THEN isoformat(licenses_data[i].expires_at) ELSE NullTs]]

ListResponse(code, body) == [route |-> "active_licenses", code |-> code, body |-> body]

\* 200: count and the list, built from fetchall().
GetActiveLicenses(scan) ==
    /\ Ready
    /\ LET licenses_data == OrderByCreatedAtDesc(scan)
           list == active_licenses_list(licenses_data)
       IN resp' = ListResponse(200, [count |-> Len(list), active_licenses |-> list])
    /\ UNCHANGED <<store, nextId, now, txns>>

\* 500: the connection or the query raises psycopg2.Error.
GetActiveLicensesError ==
    /\ Ready
    /\ resp' = ListResponse(500, QueryFailed)
    /\ UNCHANGED <<store, nextId, now, txns>>

\* The response goes out to the client.
SendResponse ==
    /\ ~Ready
    /\ resp' = NoResponse
    /\ UNCHANGED <<store, nextId, now, txns>>

Tick ==
    /\ Ready
    /\ now + 1 \in Instants
    /\ now' = now + 1
    /\ UNCHANGED <<store, nextId, txns, resp>>

Next ==
    \/ \E data \in AddPayloads : AddLicenseMissingFields(data)
    \/ \E data \in AddPayloads : AddLicenseDataError(data)
    \/ AddLicenseOperationalError
    \/ \E data \in AddPayloads : AddLicenseIntegrityError(data)
    \/ \E data \in AddPayloads : AddLicenseInsert(data)
    \/ \E data \in AddPayloads : AddLicenseInsertWaits(data)
    \/ \E t \in txns : AddLicenseWaitConflict(t)
    \/ \E t \in txns : AddLicenseWaitInsert(t)
    \/ \E t \in txns : AddLicenseCommit(t)
    \/ \E t \in txns : AddLicenseAbort(t)
    \/ CheckLicenseMissingKey
    \/ \E key \in KeyInputs : CheckLicense(key)
    \/ \E key \in KeyInputs : CheckLicenseError(key)
    \/ \E scan \in ScanOrders(select_active(store)) : GetActiveLicenses(scan)
    \/ GetActiveLicensesError
    \/ SendResponse
    \/ Tick

Spec == Init /\ [][Next]_vars

\* ----------------------------------------------------------------- claims
\* A handler returns a response in this step.
Responds == resp = NoResponse /\ resp' # NoResponse

\* check_license_route returns a verdict for key k in this step.
Checked(k) ==
    /\ Responds
    /\ resp'.route = "check_license"
    /\ resp'.code = 200
    /\ resp'.body.license_key = k

\* get_active_licenses_route returns a list in this step.
Listed == Responds /\ resp'.route = "active_licenses" /\ resp'.code = 200

\* add_license_route returns in this step.
AddReturns == Responds /\ resp'.route = "add_license"

\* add_license_route runs the INSERT for payload data in this step.
AddExecutes(data) ==
    \/ AddLicenseIntegrityError(data)
    \/ AddLicenseInsert(data)
    \/ AddLicenseInsertWaits(data)

\* add_license_route receives payload data and the database can be reached.
AddReceives(data) ==
    \/ AddLicenseMissingFields(data)
    \/ AddLicenseDataError(data)
    \/ AddExecutes(data)

HasRecord(S, k) == \E r \in S : r.license_key = k

\* The verdict a check of key k returns in the current state.
Verdict(k) == response_data(k, fetchone_license(store, k))

\* C1: a check of a record with active = true whose expiresAt lies strictly
\* before the instant of the check returns inactive_or_expired, is_valid = false.
C1_ExpiredActiveIsRejected ==
    [][\A r \in store :
          (/\ r.is_active = "true"
           /\ r.expires_at # NullTs
           /\ r.expires_at[1] < now
           /\ Checked(r.license_key))
          => (resp'.body.status = "inactive_or_expired" /\ resp'.body.is_valid = FALSE)]_vars

\* C2: the store holds at most one record per license_key and no stored record
\* ever changes; an INSERT for a key that has a record is refused with 409 and
\* never enters a transaction; with no other Register in flight an INSERT for a key
\* without a record is accepted, not refused; and a 201 carries the id the sequence
\* gave the row it adds.
C2_OneRecordPerKey ==
    /\ [](\A r1, r2 \in store : r1.license_key = r2.license_key => r1 = r2)
    /\ [][/\ store \subseteq store'
          /\ (nextId' # nextId /\ resp' = NoResponse) =>
                \E t \in txns' :
                   /\ txns' = txns \cup {t}
                   /\ t.row.id = nextId
                   /\ ~HasRecord(store, t.row.license_key)
                   /\ txns = {} => t.phase = "inserted"
                   /\ store' = store
          /\ (nextId' # nextId /\ resp' # NoResponse) =>
                /\ resp' = AddResponse(409, Conflict)
                /\ store' = store
                /\ txns' = txns
                /\ txns = {} =>
                      \A data \in CompletePayloads :
                         AddLicenseIntegrityError(data) =>
                            (HasRecord(store, data.license_key) \/ data.license_key = Null)
          /\ (AddReturns /\ resp'.code = 201) =>
                \E t \in txns :
                   /\ ~HasRecord(store, t.row.license_key)
                   /\ store' = store \cup {t.row}
                   /\ resp'.body.license_id = t.row.id
                   /\ resp'.body.license_key = t.row.license_key]_vars

\* A second INSERT was refused with 409 while the first record is stored as written.
C2_Witness ==
    /\ resp = AddResponse(409, Conflict)
    /\ nextId = 3
    /\ txns = {}
    /\ \E r \in store : store = {r} /\ r.id = 1 /\ r.license_key = "ABC-123"

\* C3: of the Register requests in flight for one key at most one returns 201;
\* a request that waited for the winner returns 409 (500 if its own connection is
\* lost) and the table never holds two records for the key.
C3_ConcurrentRegisterOneWinner ==
    /\ [](/\ \A r1, r2 \in store : r1.license_key = r2.license_key => r1.id = r2.id
          /\ \A t1, t2 \in txns :
                (t1.phase = "inserted" /\ t2.phase = "inserted"
                    /\ t1.row.license_key = t2.row.license_key) => t1 = t2
          /\ \A t \in txns : t.phase = "inserted" => ~HasRecord(store, t.row.license_key))
    /\ [][\A t \in txns :
             (t \notin txns' /\ HasRecord(store, t.row.license_key)) =>
                /\ store' = store
                /\ resp'.route = "add_license"
                /\ resp'.code \in {409, 500}
                /\ ~AddLicenseAbort(t) => resp' = AddResponse(409, Conflict)]_vars

\* One Register has just returned 201 while another for the same key waits on it.
C3_Witness ==
    /\ resp.route = "add_license"
    /\ resp.code = 201
    /\ \E t \in txns : t.phase = "blocked" /\ t.row.license_key = resp.body.license_key
    /\ HasRecord(store, resp.body.license_key)

\* C4: a Register whose license_key is missing or empty returns the client-error
\* outcome and persists nothing, so no stored record has an empty key.
C4_EmptyKeyIsInvalidInput ==
    /\ [](\A r \in store : r.license_key # "")
    /\ [][\A data \in AddPayloads :
             (data.license_key \in {Absent, ""} /\ resp = NoResponse /\ AddReceives(data)) =>
                (/\ resp' = AddResponse(400, MissingFields)
                 /\ store' = store
                 /\ txns' = txns)]_vars

\* C5: a check returns not_found, is_valid = false, with status code 200, exactly
\* for the keys that have no record at the time of the call.
C5_NotFoundIffNoRecord ==
    [][\A k \in KeyInputs :
          Checked(k) =>
             /\ (resp'.body.status = "not_found") <=> ~HasRecord(store, k)
             /\ resp'.body.status = "not_found" =>
                   resp'.body = [license_key |-> k, is_valid |-> FALSE, status |-> "not_found"]]_vars

\* A check of a key without a record returned not_found while another key has one.
C5_Witness ==
    /\ resp.route = "check_license"
    /\ resp.code = 200
    /\ resp.body.status = "not_found"
    /\ resp.body.license_key \in LicenseKeys
    /\ ~HasRecord(store, resp.body.license_key)
    /\ store # {}

\* C6: a check of a record with active = false returns inactive_or_expired,
\* is_valid = false, whatever its expiresAt.
C6_InactiveIsRejected ==
    [][\A r \in store :
          (r.is_active = "false" /\ Checked(r.license_key)) =>
             (resp'.body.status = "inactive_or_expired" /\ resp'.body.is_valid = FALSE)]_vars

\* A check of an inactive record whose expiry is still ahead returned inactive_or_expired.
C6_Witness ==
    /\ resp.route = "check_license"
    /\ resp.code = 200
    /\ resp.body.status = "inactive_or_expired"
    /\ \E r \in store :
          /\ r.license_key = resp.body.license_key
          /\ r.is_active = "false"
          /\ r.expires_at # NullTs
          /\ r.expires_at[1] > now

\* C7: a check of a record with active = true whose expiresAt is absent or strictly
\* after the instant of the check returns active, is_valid = true, with the record's
\* description and expiresAt.
C7_ActiveIsAccepted ==
    [][\A r \in store :
          (/\ r.is_active = "true"
           /\ (r.expires_at = NullTs \/ r.expires_at[1] > now)
           /\ Checked(r.license_key))
          => /\ resp'.body.status = "active"
             /\ resp'.body.is_valid = TRUE
             /\ resp'.body.description = r.description
             /\ resp'.body.expires_at =
                   (IF r.expires_at = NullTs THEN NullTs ELSE isoformat(r.expires_at))]_vars

\* A check of an active record whose expiry is still ahead returned active with it.
C7_Witness ==
    /\ resp.route = "check_license"
    /\ resp.code = 200
    /\ resp.body.status = "active"
    /\ resp.body.is_valid = TRUE
    /\ resp.body.expires_at # NullTs
    /\ \E r \in store :
          /\ r.license_key = resp.body.license_key
          /\ r.expires_at # NullTs
          /\ r.expires_at[1] > now
          /\ resp.body.expires_at = isoformat(r.expires_at)

\* C8: the list holds exactly the records with active = true, each once, ordered
\* by createdAt descending, and count is the length of the list.
C8_ListIsActiveNewestFirst ==
    [][Listed =>
          LET list == resp'.body.active_licenses
              active == {r \in store : r.is_active = "true"}
          IN /\ resp'.body.count = Len(list)
             /\ Len(list) = Cardinality(active)
             /\ \A r \in active : \E i \in 1..Len(list) :
                   /\ list[i].license_key = r.license_key
                   /\ list[i].description = r.description
                   /\ list[i].created_at = isoformat(r.created_at)
             /\ \A i \in 1..Len(list) : \E r \in active : list[i].license_key = r.license_key
             /\ \A i, j \in 1..Len(list) :
                   i < j => list[i].created_at[2] >= list[j].created_at[2]]_vars

\* A list returned two records created at different instants, the newer one first.
C8_Witness ==
    /\ resp.route = "active_licenses"
    /\ resp.code = 200
    /\ resp.body.count = 2
    /\ resp.body.active_licenses[1].created_at[2] > resp.body.active_licenses[2].created_at[2]

\* C9: a Register that returns a failure leaves the table as it was, and the table
\* changes only by gaining the one row whose Register returns 201 in that step, so
\* a check or a list never sees a row of a Register that did not succeed.
C9_RegisterIsAtomic ==
    [][/\ (AddReturns /\ resp'.code # 201) => store' = store
       /\ store' # store =>
             /\ AddReturns
             /\ resp'.code = 201
             /\ \E t \in txns :
                   /\ store' = store \cup {t.row}
                   /\ resp'.body = Created(t.row)
       /\ \A k \in KeyInputs : Checked(k) =>
             (resp'.body.status # "not_found" => HasRecord(store, k))
       /\ Listed =>
             \A i \in 1..Len(resp'.body.active_licenses) :
                HasRecord(store, resp'.body.active_licenses[i].license_key)]_vars

\* A Register whose INSERT had gone through returned 500 before its commit: the
\* request that waited for it is still waiting, and the key has no record.
C9_Witness ==
    /\ resp = AddResponse(500, OperationFailed)
    /\ \E t \in txns :
          /\ t.phase = "blocked"
          /\ ~WaitsOnUncommitted(t.row.id, t.row.license_key)
          /\ ~HasRecord(store, t.row.license_key)
    /\ store = {}

====
